---- MODULE Spec2Model ----
(***************************************************************************)
(* Page objects of the banking UI test suite (LoginPage, CustomerPage,     *)
(* ManagerPage) driving the banking demo application through a browser     *)
(* page.  Text is modelled as sequences of one-character strings so that   *)
(* substring tests, case folding and integer formatting are computed.      *)
(***************************************************************************)
EXTENDS Integers, Sequences, FiniteSets, TLC

(* ------------------------------ bounds --------------------------------- *)
MaxBalance == 14
MaxTx == 3

(* ------------------------------- text ---------------------------------- *)
LowerChar(c) ==
  CASE c = "A" -> "a"
    [] c = "B" -> "b"
    [] c = "C" -> "c"
    [] c = "D" -> "d"
    [] c = "E" -> "e"
    [] c = "F" -> "f"
    [] c = "G" -> "g"
    [] c = "H" -> "h"
    [] c = "I" -> "i"
    [] c = "J" -> "j"
    [] c = "K" -> "k"
    [] c = "L" -> "l"
    [] c = "M" -> "m"
    [] c = "N" -> "n"
    [] c = "O" -> "o"
    [] c = "P" -> "p"
    [] c = "Q" -> "q"
    [] c = "R" -> "r"
    [] c = "S" -> "s"
    [] c = "T" -> "t"
    [] c = "U" -> "u"
    [] c = "V" -> "v"
    [] c = "W" -> "w"
    [] c = "X" -> "x"
    [] c = "Y" -> "y"
    [] c = "Z" -> "z"
    [] OTHER -> c

\* str.lower()
Lower(s) == [i \in 1..Len(s) |-> LowerChar(s[i])]

\* Python's "needle in hay"
Contains(hay, needle) ==
  \E i \in 0..(Len(hay) - Len(needle)) :
     SubSeq(hay, i + 1, i + Len(needle)) = needle

DigitChars == <<"0", "1", "2", "3", "4", "5", "6", "7", "8", "9">>

IsDigit(c) == \E d \in 1..10 : DigitChars[d] = c

DigitVal(c) == (CHOOSE d \in 1..10 : DigitChars[d] = c) - 1

\* str(amount) for a non-negative int
RECURSIVE IntToStr(_)
IntToStr(n) ==
  IF n < 10 THEN <<DigitChars[n + 1]>>
  ELSE IntToStr(n \div 10) \o <<DigitChars[(n % 10) + 1]>>

\* int(text) for a string of decimal digits
RECURSIVE StrToInt(_)
StrToInt(s) ==
  IF Len(s) = 0 THEN 0
  ELSE 10 * StrToInt(SubSeq(s, 1, Len(s) - 1)) + DigitVal(s[Len(s)])

IsSpace(c) == c \in {" ", "\n", "\t"}

\* str.strip()
RECURSIVE Strip(_)
Strip(s) ==
  IF Len(s) = 0 THEN s
  ELSE IF IsSpace(s[1]) THEN Strip(Tail(s))
  ELSE IF IsSpace(s[Len(s)]) THEN Strip(SubSeq(s, 1, Len(s) - 1))
  ELSE s

DepositSuccessfulText ==
  <<
     "D", "e", "p", "o", "s", "i", "t", " ", "S", "u", "c", "c", "e", "s",
     "s", "f", "u", "l" >>

TransactionSuccessfulText ==
  <<
     "T", "r", "a", "n", "s", "a", "c", "t", "i", "o", "n", " ", "s", "u",
     "c", "c", "e", "s", "s", "f", "u", "l" >>

TransactionFailedText ==
  <<
     "T", "r", "a", "n", "s", "a", "c", "t", "i", "o", "n", " ", "F", "a",
     "i", "l", "e", "d", ".", " ", "Y", "o", "u", " ", "c", "a", "n", " ",
     "n", "o", "t", " ", "w", "i", "t", "h", "d", "r", "a", "w", " ", "a",
     "m", "o", "u", "n", "t", " ", "m", "o", "r", "e", " ", "t", "h", "a",
     "n", " ", "t", "h", "e", " ", "b", "a", "l", "a", "n", "c", "e", "." >>

SuccessfulNeedle ==
  <<
     "s", "u", "c", "c", "e", "s", "s", "f", "u", "l" >>

\* text of span.error for each message the account page can show
MessageText(m) ==
  CASE m = "DepositSuccessful" -> DepositSuccessfulText
    [] m = "TransactionSuccessful" -> TransactionSuccessfulText
    [] m = "TransactionFailed" -> TransactionFailedText
    [] OTHER -> << >>

(* ------------------------------ state ---------------------------------- *)
VARIABLES
  accTab,        \* account page: form shown ("none", "deposit", "withdrawl", "transactions")
  accPending,    \* UI updates of the account page not yet rendered
  balance,       \* balance of the selected account
  amountInput,   \* text in input[placeholder='amount']
  message,       \* message shown in span.error ("none": hidden)
  transactions,  \* rows of the transaction table, in date order
  sortNewest,    \* transaction table sorted newest first
  accLast,       \* the last perform_deposit / perform_withdrawal call
  txAmounts,     \* the last get_transaction_amounts call
  lastAct        \* the operation that returned last

accVars == <<accTab, accPending, balance, amountInput, message, transactions,
             sortNewest, accLast, txAmounts, lastAct>>

VARIABLES
  mgrTab,        \* manager page: tab shown ("none", "add", "open", "list")
  mgrPending,    \* UI updates of the manager page not yet rendered
  customers,     \* the application's customers, in table order
  custForm,      \* the three inputs of the add-customer form
  search,        \* text in the Search Customer box
  applied,       \* the search text the table is filtered by
  handlers,      \* one-shot "dialog" listeners registered on the page
  accountNumber, \* the ManagerPage object's account_number attribute
  nextAccountNo, \* the number the application gives the next account
  dlg,           \* the native dialog raised during the last call, if any
  mgrLast        \* the last ManagerPage call

mgrVars == <<mgrTab, mgrPending, customers, custForm, search, applied,
             handlers, accountNumber, nextAccountNo, dlg, mgrLast>>

VARIABLES
  screen,         \* the screen the page shows
  nav,            \* the navigation under way: its target and the ms it still takes
  user,           \* the customer chosen in the customer dropdown
  selectedIndex,  \* selectedIndex of the account dropdown
  shownIndex,     \* index of the account whose number and balance are shown
  navLast         \* what the last call of a navigation method was and returned

navVars == <<screen, nav, user, selectedIndex, shownIndex, navLast>>

VARIABLES
  mainPc,      \* where main() of run_tests stands
  runPc,       \* where the pytest session stands
  collected,   \* number of scenarios pytest collected
  scenario,    \* index of the scenario being set up, run or torn down
  browser,     \* "none", "open" or "closed"
  contexts,    \* the browser contexts created, in order
  pages,       \* the pages created, in order
  contextFx,   \* the value the context fixture holds (index into contexts)
  pageFx,      \* the value the page fixture holds (index into pages)
  results,     \* outcome of each scenario finished
  ran,         \* what each scenario body found when it started
  status,      \* return code of the pytest process
  report,      \* test_results.json as the run left it
  exitCode,    \* the value main() returned
  archived     \* main() wrote results/test_results.json

runVars == <<mainPc, runPc, collected, scenario, browser, contexts, pages,
             contextFx, pageFx, results, ran, status, report, exitCode,
             archived>>

VARIABLES
  remote,   \* the customers of the application, each with who created it
  scPc,     \* where each customer-creating scenario stands
  scRun,    \* which run of each scenario this is
  scnLast   \* the last step a scenario took and whose customers it met

scnVars == <<remote, scPc, scRun, scnLast>>

(* ----------------- the account page of the application ----------------- *)
\* the rendered account page, as one record the primitives act on
AccState ==
  [tab |-> accTab, pending |-> accPending, balance |-> balance,
   input |-> amountInput, message |-> message, txs |-> transactions,
   raised |-> FALSE]

\* the deposit form's submit: credit the amount, show "Deposit Successful"
AppDeposit(S, text) ==
  IF text = << >> THEN S
  ELSE [S EXCEPT !.balance = @ + StrToInt(text),
                 !.message = "DepositSuccessful",
                 !.txs = Append(@, [amount |-> StrToInt(text), type |-> "Credit"])]

\* the withdraw form's submit: debit when covered, else the failure message
AppWithdrawl(S, text) ==
  IF text = << >> THEN S
  ELSE IF StrToInt(text) <= S.balance
  THEN [S EXCEPT !.balance = @ - StrToInt(text),
                 !.message = "TransactionSuccessful",
                 !.txs = Append(@, [amount |-> StrToInt(text), type |-> "Debit"])]
  ELSE [S EXCEPT !.message = "TransactionFailed"]

\* one pending UI update takes effect
AppStep(S, task) ==
  IF task.kind = "tab" THEN [S EXCEPT !.tab = task.tab]
  ELSE IF task.form = "deposit" THEN AppDeposit(S, task.text)
  ELSE AppWithdrawl(S, task.text)

RECURSIVE RunPending(_)
RunPending(S) ==
  IF S.pending = << >> THEN S
  ELSE RunPending(AppStep([S EXCEPT !.pending = Tail(@)], Head(S.pending)))

(* --------------------------- BasePage / page --------------------------- *)
\* a locator action that resolves no element times out and raises; the page
\* has rendered everything pending by then, and the rest of the call is skipped
Raise(S) == [RunPending(S) EXCEPT !.raised = TRUE]

WaitForTimeoutNone(S) == S

\* page.wait_for_timeout(ms): the settle delay, during which the page renders
WaitForTimeout(S) == IF S.raised THEN S ELSE RunPending(S)

\* the account page's tab buttons are shown except on the transactions view
TabButtonsVisible(S) == S.tab # "transactions"

\* click on DEPOSIT_TAB / WITHDRAW_TAB / TRANSACTIONS_TAB; a locator action
\* waits for its element, so pending rendering completes when it is not there
ClickTab(S, t) ==
  IF S.raised THEN S
  ELSE IF TabButtonsVisible(S)
  THEN [S EXCEPT !.pending = Append(@, [kind |-> "tab", tab |-> t])]
  ELSE IF TabButtonsVisible(RunPending(S))
  THEN [RunPending(S) EXCEPT !.pending = <<[kind |-> "tab", tab |-> t]>>]
  ELSE Raise(S)

AmountInputPresent(S) == S.tab \in {"deposit", "withdrawl"}

\* Playwright's fill() replaces the field's content; type() would append
FillAppend(S, text) ==
  IF S.raised THEN S
  ELSE IF AmountInputPresent(S) THEN [S EXCEPT !.input = @ \o text]
  ELSE IF AmountInputPresent(RunPending(S))
  THEN [RunPending(S) EXCEPT !.input = @ \o text]
  ELSE Raise(S)

\* BasePage.fill on AMOUNT_INPUT
Fill(S, text) ==
  IF S.raised THEN S
  ELSE IF AmountInputPresent(S) THEN [S EXCEPT !.input = text]
  ELSE IF AmountInputPresent(RunPending(S))
  THEN [RunPending(S) EXCEPT !.input = text]
  ELSE Raise(S)

\* locator(AMOUNT_INPUT).clear()
Clear(S) == Fill(S, << >>)

\* DEPOSIT_BTN resolves only while the deposit form is shown
DepositBtnVisible(S) == S.tab = "deposit"

\* WITHDRAW_BTN resolves only while the withdraw form is shown
WithdrawBtnVisible(S) == S.tab = "withdrawl"

\* click on the shown form's submit button
ClickSubmit(S, form) ==
  [S EXCEPT !.pending = Append(@, [kind |-> "submit", form |-> form,
                                   text |-> S.input])]

\* click(DEPOSIT_BTN)
ClickDepositBtn(S) ==
  IF S.raised THEN S
  ELSE IF DepositBtnVisible(S) THEN ClickSubmit(S, "deposit")
  ELSE IF DepositBtnVisible(RunPending(S))
  THEN ClickSubmit(RunPending(S), "deposit")
  ELSE Raise(S)

\* the loose selector used whatever the primary selector shows
ClickWithdrawBtnLoose(S) == ClickTab(S, "withdrawl")

\* the branch of perform_withdrawal that picks the button to click:
\* "button:text('Withdraw')" also matches the tab button "Withdrawl"
ClickWithdrawBtn(S) ==
  IF S.raised THEN S
  ELSE IF WithdrawBtnVisible(S) THEN ClickSubmit(S, "withdrawl")
  ELSE ClickTab(S, "withdrawl")

\* message_element.is_visible()
MessageVisible(S) == S.message # "none"

\* the value perform_withdrawal returns, read off the message element
WithdrawalResultAnyMessage(S) == MessageVisible(S)

WithdrawalResult(S) ==
  IF MessageVisible(S)
  THEN Contains(Lower(MessageText(S.message)), SuccessfulNeedle)
  ELSE FALSE

\* CustomerPage.get_balance
GetBalance == StrToInt(IntToStr(balance))

\* CustomerPage.get_message
GetMessage == MessageText(message)

(* ------------------------- CustomerPage actions ------------------------ *)
Amounts == {0, 1, 2, 12}

InitBalances == {0, 3}

NoCall ==
  [op |-> "none", amount |-> 0, balBefore |-> 0, txBefore |-> 0,
   tabBefore |-> "none", inputBefore |-> << >>, msgBefore |-> "none",
   ret |-> FALSE, raised |-> FALSE, ok |-> FALSE]

NoAmounts == [called |-> FALSE, shown |-> FALSE, amounts |-> << >>]

\* the variables take the values of the page record S
AccApply(S) ==
  /\ accTab' = S.tab
  /\ accPending' = S.pending
  /\ balance' = S.balance
  /\ amountInput' = S.input
  /\ message' = S.message
  /\ transactions' = S.txs

\* what the caller of a deposit or withdrawal saw: the arguments, the page
\* before the call, the returned value and whether the page reports success
CallRecord(op, a, S, ret) ==
  [op |-> op, amount |-> a, balBefore |-> GetBalance,
   txBefore |-> Len(transactions), tabBefore |-> accTab,
   inputBefore |-> amountInput, msgBefore |-> message,
   ret |-> ret, raised |-> S.raised,
   ok |-> /\ ~S.raised
          /\ S.message = (IF op = "deposit" THEN "DepositSuccessful"
                          ELSE "TransactionSuccessful")]

\* CustomerPage.perform_deposit(amount)
PerformDeposit(a) ==
  /\ balance + a <= MaxBalance
  /\ Len(transactions) < MaxTx
  /\ LET S1 == ClickTab(AccState, "deposit")
         S2 == WaitForTimeout(S1)
         S3 == Fill(S2, IntToStr(a))
         S4 == ClickDepositBtn(S3)
         S5 == WaitForTimeout(S4)
     IN /\ AccApply(S5)
        /\ accLast' = CallRecord("deposit", a, S5, FALSE)
  /\ txAmounts' = NoAmounts
  /\ lastAct' = "perform_deposit"
  /\ UNCHANGED <<sortNewest, mgrVars, navVars, runVars, scnVars>>

\* perform_withdrawal reading the message with no settle delay after the
\* submit click
PerformWithdrawalNoSettle(a) ==
  /\ Len(transactions) < MaxTx
  /\ LET S1 == ClickTab(AccState, "withdrawl")
         S2 == WaitForTimeout(S1)
         S3 == Clear(S2)
         S4 == Fill(S3, IntToStr(a))
         S5 == ClickWithdrawBtn(S4)
     IN /\ AccApply(S5)
        /\ accLast' = CallRecord("withdrawal", a, S5,
                                 IF S5.raised THEN FALSE ELSE WithdrawalResult(S5))
  /\ txAmounts' = NoAmounts
  /\ lastAct' = "perform_withdrawal"
  /\ UNCHANGED <<sortNewest, mgrVars, navVars, runVars, scnVars>>

\* CustomerPage.perform_withdrawal(amount)
PerformWithdrawal(a) ==
  /\ Len(transactions) < MaxTx
  /\ LET S1 == ClickTab(AccState, "withdrawl")
         S2 == WaitForTimeout(S1)
         S3 == Clear(S2)
         S4 == Fill(S3, IntToStr(a))
         S5 == ClickWithdrawBtn(S4)
         S6 == WaitForTimeout(S5)
     IN /\ AccApply(S6)
        /\ accLast' = CallRecord("withdrawal", a, S6,
                                 IF S6.raised THEN FALSE ELSE WithdrawalResult(S6))
  /\ txAmounts' = NoAmounts
  /\ lastAct' = "perform_withdrawal"
  /\ UNCHANGED <<sortNewest, mgrVars, navVars, runVars, scnVars>>

\* CustomerPage.go_to_transactions
GoToTransactions ==
  /\ LET S1 == ClickTab(AccState, "transactions")
         S2 == WaitForTimeout(S1)
     IN /\ AccApply(S2)
        /\ sortNewest' = IF S2.raised THEN sortNewest ELSE FALSE
  /\ lastAct' = "go_to_transactions"
  /\ UNCHANGED <<accLast, txAmounts, mgrVars, navVars, runVars, scnVars>>

\* CustomerPage.sort_transactions_by_date: the date header toggles the order
SortTransactionsByDate ==
  /\ accTab = "transactions"
  /\ sortNewest' = ~sortNewest
  /\ lastAct' = "sort_transactions_by_date"
  /\ UNCHANGED <<accTab, accPending, balance, amountInput, message,
                 transactions, accLast, txAmounts, mgrVars, navVars, runVars, scnVars>>

RECURSIVE Reverse(_)
Reverse(q) == IF q = << >> THEN << >> ELSE Append(Reverse(Tail(q)), Head(q))

\* the rows matched by TRANSACTION_ROWS, in the table's current order
VisibleTxRows ==
  IF accTab # "transactions" THEN << >>
  ELSE IF sortNewest THEN Reverse(transactions) ELSE transactions

\* text_content() of a row's amount cell (td:nth-child(2))
AmountCellText(row) == <<"\n", " ">> \o IntToStr(row.amount) \o <<"\n">>

\* the list get_transaction_amounts builds, without the strip()
TransactionAmountsRaw ==
  [i \in 1..Len(VisibleTxRows) |-> AmountCellText(VisibleTxRows[i])]

\* the list get_transaction_amounts builds
TransactionAmounts ==
  [i \in 1..Len(VisibleTxRows) |-> Strip(AmountCellText(VisibleTxRows[i]))]

\* CustomerPage.get_transaction_amounts
GetTransactionAmounts ==
  /\ txAmounts' = [called |-> TRUE, shown |-> accTab = "transactions",
                   amounts |-> TransactionAmounts]
  /\ lastAct' = "get_transaction_amounts"
  /\ UNCHANGED <<accTab, accPending, balance, amountInput, message,
                 transactions, sortNewest, accLast, mgrVars, navVars, runVars, scnVars>>

\* LoginPage.customer_login from the start URL: the account page is rendered
\* anew for the same account (no form shown, no message, default order)
CustomerLogin ==
  /\ accTab' = "none"
  /\ accPending' = << >>
  /\ amountInput' = << >>
  /\ message' = "none"
  /\ sortNewest' = FALSE
  /\ lastAct' = "customer_login"
  /\ UNCHANGED <<balance, transactions, accLast, txAmounts, mgrVars, navVars, runVars, scnVars>>

AccInit ==
  /\ accTab = "none"
  /\ accPending = << >>
  /\ balance \in InitBalances
  /\ amountInput = << >>
  /\ message = "none"
  /\ transactions = << >>
  /\ sortNewest = FALSE
  /\ accLast = NoCall
  /\ txAmounts = NoAmounts
  /\ lastAct = "customer_login"

(* ------------------------------------------------------------------------ *)
(* ManagerPage                                                              *)
(* ------------------------------------------------------------------------ *)
MaxAccounts == 2
MaxStale == 1

(* ----------------------------- Python values --------------------------- *)
PyUnset == [tag |-> "unset", text |-> << >>]

PyNone == [tag |-> "None", text |-> << >>]

PyStr(t) == [tag |-> "str", text |-> t]

UnknownText ==
  <<
     "u", "n", "k", "n", "o", "w", "n" >>

(* ------------------ strings handled by ManagerPage --------------------- *)
HasSpace(name) == \E i \in 1..Len(name) : name[i] = " "

FirstSpace(name) == CHOOSE i \in 1..Len(name) :
                      /\ name[i] = " "
                      /\ \A k \in 1..(i - 1) : name[k] # " "

\* customer_name.split(" ", 1)[0]
SplitFirst(name) == SubSeq(name, 1, FirstSpace(name) - 1)

\* customer_name.split(" ", 1)[1]
SplitRest(name) == SubSeq(name, FirstSpace(name) + 1, Len(name))

AccountPatternPrefix ==
  <<
     "A", "c", "c", "o", "u", "n", "t", " ", "c", "r", "e", "a", "t", "e",
     "d", " ", "s", "u", "c", "c", "e", "s", "s", "f", "u", "l", "l", "y",
     " ", "w", "i", "t", "h", " ", "a", "c", "c", "o", "u", "n", "t", " ",
     "N", "u", "m", "b", "e", "r", " ", ":" >>

\* a run of digits of msg from position j on, as \d+ takes it
RECURSIVE DigitRun(_, _)
DigitRun(msg, j) ==
  IF j <= Len(msg) /\ IsDigit(msg[j])
  THEN <<msg[j]>> \o DigitRun(msg, j + 1)
  ELSE << >>

\* the pattern of handle_dialog matches msg at position i
PatternAt(msg, i) ==
  /\ i + Len(AccountPatternPrefix) <= Len(msg)
  /\ SubSeq(msg, i, i + Len(AccountPatternPrefix) - 1) = AccountPatternPrefix
  /\ IsDigit(msg[i + Len(AccountPatternPrefix)])

\* re.search(pattern, dialog.message) finds a match
PatternMatches(msg) == \E i \in 1..Len(msg) : PatternAt(msg, i)

\* match.group(1) of the leftmost match
PatternGroup(msg) ==
  LET i == CHOOSE k \in 1..Len(msg) :
             PatternAt(msg, k) /\ \A m \in 1..(k - 1) : ~PatternAt(msg, m)
  IN DigitRun(msg, i + Len(AccountPatternPrefix))

(* ---------------- the manager pages of the application ----------------- *)
\* whitespace the table markup puts between two cells
CellSep == <<"\n", " ">>

DeleteLabel ==
  <<
     "D", "e", "l", "e", "t", "e" >>

\* the account numbers cell: each number followed by a space
RECURSIVE AccountsText(_)
AccountsText(accs) ==
  IF accs = << >> THEN << >>
  ELSE IntToStr(Head(accs)) \o <<" ">> \o AccountsText(Tail(accs))

\* text_content() of a customer's table row
RowText(c) ==
  CellSep \o c.first \o CellSep \o c.last \o CellSep \o c.post \o CellSep
    \o AccountsText(c.accounts) \o CellSep \o DeleteLabel \o CellSep

HeaderFirstName ==
  <<
     "F", "i", "r", "s", "t", " ", "N", "a", "m", "e" >>

HeaderLastName ==
  <<
     "L", "a", "s", "t", " ", "N", "a", "m", "e" >>

HeaderPostCode ==
  <<
     "P", "o", "s", "t", " ", "C", "o", "d", "e" >>

HeaderAccountNumber ==
  <<
     "A", "c", "c", "o", "u", "n", "t", " ", "N", "u", "m", "b", "e", "r" >>

HeaderDeleteCustomer ==
  <<
     "D", "e", "l", "e", "t", "e", " ", "C", "u", "s", "t", "o", "m", "e",
     "r" >>

\* text_content() of the table's header row
HeaderText ==
  CellSep \o HeaderFirstName \o CellSep \o HeaderLastName \o CellSep
    \o HeaderPostCode \o CellSep \o HeaderAccountNumber \o CellSep
    \o HeaderDeleteCustomer \o CellSep

\* the table's search filter: some field contains the text, whatever the case
FilterMatches(c, q) ==
  \/ Contains(Lower(c.first), Lower(q))
  \/ Contains(Lower(c.last), Lower(q))
  \/ Contains(Lower(c.post), Lower(q))
  \/ \E k \in 1..Len(c.accounts) : Contains(IntToStr(c.accounts[k]), q)

\* label of a customer in the #userSelect dropdown
OptionLabel(c) == c.first \o <<" ">> \o c.last

EmptyForm == [first |-> << >>, last |-> << >>, post |-> << >>]

NoDialog ==
  [fired |-> FALSE, kind |-> "none", accepts |-> 0, dismissed |-> FALSE,
   error |-> FALSE, stale |-> 0, own |-> FALSE]

\* the rendered manager page, as one record the primitives act on
MgrState ==
  [tab |-> mgrTab, pending |-> mgrPending, customers |-> customers,
   form |-> custForm, search |-> search, applied |-> applied,
   handlers |-> handlers, attr |-> accountNumber, nextNo |-> nextAccountNo,
   dlg |-> NoDialog, raised |-> FALSE, clicked |-> 0]

\* one pending UI update of the manager page takes effect; a tab that was not
\* shown is rendered anew, with empty inputs
MgrStep(M, task) ==
  IF task.kind = "tab"
  THEN IF task.tab = M.tab THEN M
       ELSE [M EXCEPT !.tab = task.tab, !.form = EmptyForm,
                      !.search = << >>, !.applied = << >>]
  ELSE [M EXCEPT !.applied = task.text]

RECURSIVE MgrRunPending(_)
MgrRunPending(M) ==
  IF M.pending = << >> THEN M
  ELSE MgrRunPending(MgrStep([M EXCEPT !.pending = Tail(@)], Head(M.pending)))

MgrRaise(M) == [MgrRunPending(M) EXCEPT !.raised = TRUE]

\* page.wait_for_timeout(ms) on the manager page
MgrWait(M) == IF M.raised THEN M ELSE MgrRunPending(M)

\* go_to_add_customer / go_to_open_account / go_to_customers_list
GoToTab(M, t) ==
  IF M.raised THEN M
  ELSE [M EXCEPT !.pending = Append(@, [kind |-> "tab", tab |-> t])]

\* page.wait_for_selector(selector, state="visible") for an element of tab t,
\* and the wait every locator action does for its element
WaitForTab(M, t) ==
  IF M.raised THEN M
  ELSE IF M.tab = t THEN M
  ELSE IF MgrRunPending(M).tab = t THEN MgrRunPending(M)
  ELSE MgrRaise(M)

(* ------------------------------ dialogs -------------------------------- *)
\* dialog.accept(): a dialog can be accepted once; a second accept fails
Accept(M) ==
  IF M.dlg.accepts = 0 /\ ~M.dlg.dismissed
  THEN [M EXCEPT !.dlg.accepts = 1]
  ELSE [M EXCEPT !.dlg.error = TRUE]

\* the handle_dialog closure of open_account
HandleDialog(M, text) ==
  Accept([M EXCEPT !.attr = IF PatternMatches(text)
                            THEN PyStr(PatternGroup(text))
                            ELSE PyStr(UnknownText)])

\* one registered listener runs
RunHandler(M, h, text) ==
  IF h.kind = "handle_dialog" THEN HandleDialog(M, text) ELSE Accept(M)

\* the listeners run in registration order; one that raises ends the emit
RECURSIVE RunHandlers(_, _, _)
RunHandlers(M, hs, text) ==
  IF hs = << >> \/ M.dlg.error THEN M
  ELSE RunHandlers(RunHandler(M, Head(hs), text), Tail(hs), text)

\* the page raises a native dialog: every one-shot listener is taken off and
\* run; with no listener the dialog is dismissed
FireDialog(M, kind, text) ==
  LET D == [fired |-> TRUE, kind |-> kind, accepts |-> 0,
            dismissed |-> M.handlers = << >>, error |-> FALSE,
            stale |-> Cardinality({k \in 1..Len(M.handlers) : M.handlers[k].stale}),
            own |-> \E k \in 1..Len(M.handlers) : ~M.handlers[k].stale]
  IN RunHandlers([M EXCEPT !.dlg = D, !.handlers = << >>], M.handlers, text)

\* page.once("dialog", handler)
Once(M, kind) ==
  IF M.raised THEN M
  ELSE [M EXCEPT !.handlers = Append(@, [kind |-> kind, stale |-> FALSE])]

\* a listener that raised surfaces as an error of the call (propagate), or
\* is only logged
AfterDialog(M, propagate) ==
  IF M.dlg.error /\ propagate THEN MgrRaise(M) ELSE M


(* ------------------------- ManagerPage actions ------------------------- *)
FirstNames == {<<"a">>, <<"A", "b">>}

LastNames == {<<"b">>}

PostCodes == {<<"1">>}

\* names passed to open_account, delete_customer and is_customer_listed
NameArgs ==
  {f \o <<" ">> \o l : f \in FirstNames, l \in LastNames}
    \cup {<<"a", " ", "z">>, <<"b">>, <<"z">>, <<"N", "a", "m", "e">>}

CurrencyOptions == {"Dollar"}

CurrencyArgs == {"Dollar"}

InitialAccountNo == 9

NoMgrCall ==
  [op |-> "none", name |-> << >>, form |-> EmptyForm, ret |-> FALSE,
   val |-> PyUnset, raised |-> FALSE, before |-> << >>, clicked |-> 0]

\* listeners still registered when a call ends were registered by an earlier
\* call from then on
Aged(hs) == [k \in 1..Len(hs) |-> [hs[k] EXCEPT !.stale = TRUE]]

\* the variables take the values of the page record M
MgrApply(M) ==
  /\ mgrTab' = M.tab
  /\ mgrPending' = M.pending
  /\ customers' = M.customers
  /\ custForm' = M.form
  /\ search' = M.search
  /\ applied' = M.applied
  /\ handlers' = Aged(M.handlers)
  /\ accountNumber' = M.attr
  /\ nextAccountNo' = M.nextNo
  /\ dlg' = M.dlg

MgrCall(op, name, form, M, ret, val) ==
  [op |-> op, name |-> name, form |-> form, ret |-> ret, val |-> val,
   raised |-> M.raised,
   before |-> IF op = "delete_customer" THEN customers ELSE << >>,
   clicked |-> M.clicked]

\* fill() of the three inputs of the add-customer form
FillForm(M, form) == IF M.raised THEN M ELSE [M EXCEPT !.form = form]

FormComplete(form) ==
  form.first # << >> /\ form.last # << >> /\ form.post # << >>

IsDuplicate(cs, form) ==
  \E k \in 1..Len(cs) :
     cs[k].first = form.first /\ cs[k].last = form.last /\ cs[k].post = form.post

\* click(ADD_CUSTOMER_BTN): the form is submitted only when every required
\* input is filled; the application then adds the customer, unless it is a
\* duplicate, and raises its dialog, whose wording no listener reads
ClickAddCustomer(M) ==
  IF M.raised THEN M
  ELSE IF ~FormComplete(M.form) THEN M
  ELSE IF IsDuplicate(M.customers, M.form)
  THEN FireDialog(M, "duplicate", << >>)
  ELSE FireDialog([M EXCEPT !.customers =
                               Append(@, [first |-> M.form.first,
                                          last |-> M.form.last,
                                          post |-> M.form.post,
                                          accounts |-> << >>]),
                            !.form = EmptyForm],
                  "added", << >>)

\* the steps of add_customer with the listener registered after the click
AddCustomerStepsLate(M0, form, propagate) ==
  LET M1 == GoToTab(M0, "add")
      M2 == WaitForTab(M1, "add")
      M3 == FillForm(M2, form)
      M4 == ClickAddCustomer(M3)
      M5 == Once(M4, "accept")
      M6 == AfterDialog(M5, propagate)
  IN MgrWait(M6)

\* the steps of ManagerPage.add_customer
AddCustomerSteps(M0, form, propagate) ==
  LET M1 == GoToTab(M0, "add")
      M2 == WaitForTab(M1, "add")
      M3 == FillForm(M2, form)
      M4 == Once(M3, "accept")
      M5 == ClickAddCustomer(M4)
      M6 == AfterDialog(M5, propagate)
  IN MgrWait(M6)

\* ManagerPage.add_customer(first_name, last_name, post_code)
AddCustomer(f, l, p, propagate) ==
  LET form == [first |-> f, last |-> l, post |-> p]
      M == AddCustomerSteps(MgrState, form, propagate)
  IN /\ ~FormComplete(form) => Len(handlers) < MaxStale
     /\ propagate => M.dlg.error
     /\ MgrApply(M)
     /\ mgrLast' = MgrCall("add_customer", << >>, form, M, FALSE, PyUnset)
     /\ UNCHANGED <<accVars, navVars, runVars, scnVars>>
    

LabelPresent(M, name) ==
  \E k \in 1..Len(M.customers) : OptionLabel(M.customers[k]) = name

\* select_option(CUSTOMER_SELECT, customer_name) and
\* select_option(CURRENCY_SELECT, currency): a label not offered raises
SelectOptions(M, name, currency) ==
  IF M.raised THEN M
  ELSE IF LabelPresent(M, name) /\ currency \in CurrencyOptions THEN M
  ELSE MgrRaise(M)

\* the text of the dialog the application confirms a new account with; its
\* wording is the application's, and may or may not fit the pattern
AccountDialogText(n, fits) ==
  IF fits THEN AccountPatternPrefix \o IntToStr(n)
  ELSE AccountPatternPrefix \o <<" ">> \o IntToStr(n)

\* click(PROCESS_BTN): the application opens the account for the selected
\* customer and raises the dialog naming its number
ClickProcess(M, name, fits) ==
  IF M.raised THEN M
  ELSE LET k == CHOOSE i \in 1..Len(M.customers) :
                  /\ OptionLabel(M.customers[i]) = name
                  /\ \A m \in 1..(i - 1) : OptionLabel(M.customers[m]) # name
       IN FireDialog([M EXCEPT !.customers[k].accounts = Append(@, M.nextNo),
                               !.nextNo = @ + 1],
                     "account", AccountDialogText(M.nextNo, fits))

\* self.account_number = None
ResetAccountNumber(M) == IF M.raised THEN M ELSE [M EXCEPT !.attr = PyNone]

\* the steps of ManagerPage.open_account
OpenAccountSteps(M0, name, currency, fits, propagate) ==
  LET M1 == GoToTab(M0, "open")
      M2 == WaitForTab(M1, "open")
      M3 == SelectOptions(M2, name, currency)
      M4 == ResetAccountNumber(M3)
      M5 == Once(M4, "handle_dialog")
      M6 == ClickProcess(M5, name, fits)
      M7 == AfterDialog(M6, propagate)
  IN MgrWait(M7)

\* ManagerPage.open_account(customer_name, currency); the value returned is
\* getattr(self, 'account_number', None)
OpenAccount(name, currency, fits, propagate) ==
  LET M == OpenAccountSteps(MgrState, name, currency, fits, propagate)
  IN /\ nextAccountNo < InitialAccountNo + MaxAccounts
     /\ propagate => M.dlg.error
     /\ ~fits => M.dlg.fired
     /\ MgrApply(M)
     /\ mgrLast' = MgrCall("open_account", name, EmptyForm, M, FALSE,
                           IF M.attr.tag = "unset" THEN PyNone ELSE M.attr)
     /\ UNCHANGED <<accVars, navVars, runVars, scnVars>>
    

\* fill(SEARCH_CUSTOMER, text): the table is filtered once the page has
\* rendered
FillSearch(M, text) ==
  IF M.raised THEN M
  ELSE [M EXCEPT !.search = text,
                 !.pending = Append(@, [kind |-> "filter", text |-> text])]

\* indices of the customers whose rows CUSTOMER_ROWS matches, in table order
VisibleRows(M) ==
  IF M.tab # "list" THEN {}
  ELSE {k \in 1..Len(M.customers) : FilterMatches(M.customers[k], M.applied)}

RECURSIVE RowsText(_, _)
RowsText(M, k) ==
  IF k > Len(M.customers) THEN << >>
  ELSE (IF k \in VisibleRows(M) THEN RowText(M.customers[k]) ELSE << >>)
         \o RowsText(M, k + 1)

\* locator(CUSTOMERS_TABLE).text_content(): header and visible rows
TableText(M) == IF M.tab # "list" THEN << >> ELSE HeaderText \o RowsText(M, 1)

\* the row the loop of delete_customer stops at: the first visible row whose
\* text contains the needle (every row has a Delete button); 0 when none
FirstMatch(M, needle) ==
  IF \E k \in VisibleRows(M) : Contains(RowText(M.customers[k]), needle)
  THEN CHOOSE k \in VisibleRows(M) :
         /\ Contains(RowText(M.customers[k]), needle)
         /\ \A m \in VisibleRows(M) :
              Contains(RowText(M.customers[m]), needle) => k <= m
  ELSE 0

Remove(q, k) == SubSeq(q, 1, k - 1) \o SubSeq(q, k + 1, Len(q))

\* delete_button.click(): the application removes the row's customer
ClickDelete(M, k) ==
  [M EXCEPT !.customers = Remove(@, k), !.clicked = k]

\* what delete_customer and is_customer_listed type into the search box
SearchText(name) == IF HasSpace(name) THEN SplitFirst(name) ELSE name

\* what they look for in the rows
RowNeedle(name) == IF HasSpace(name) THEN SplitRest(name) ELSE name

\* delete_customer up to its loop over the rows
DeleteSearchSteps(M0, name) ==
  LET M1 == GoToTab(M0, "list")
      M2 == WaitForTab(M1, "list")
      M3 == FillSearch(M2, SearchText(name))
  IN MgrWait(M3)

\* delete_customer returning True without a click
DeleteCustomerStepsNoClick(M0, name) == DeleteSearchSteps(M0, name)

\* the steps of ManagerPage.delete_customer
DeleteCustomerSteps(M0, name) ==
  LET M4 == DeleteSearchSteps(M0, name)
      k == FirstMatch(M4, RowNeedle(name))
  IN IF k # 0 THEN MgrWait(ClickDelete(M4, k)) ELSE M4

\* the value delete_customer returns
DeleteCustomerResult(M0, name) ==
  FirstMatch(DeleteSearchSteps(M0, name), RowNeedle(name)) # 0

\* ManagerPage.delete_customer(customer_name)
DeleteCustomer(name) ==
  LET M == DeleteCustomerSteps(MgrState, name)
  IN /\ MgrApply(M)
     /\ mgrLast' = MgrCall("delete_customer", name, EmptyForm, M,
                           DeleteCustomerResult(MgrState, name), PyUnset)
     /\ UNCHANGED <<accVars, navVars, runVars, scnVars>>
    

\* is_customer_listed up to its first look at the table
ListedOpenSteps(M0) == WaitForTab(GoToTab(M0, "list"), "list")

\* the full name is found in the table's text at once
ListedAtOnce(M0, name) ==
  HasSpace(name) /\ Contains(TableText(ListedOpenSteps(M0)), name)

\* the steps of ManagerPage.is_customer_listed
IsCustomerListedSteps(M0, name) ==
  IF ListedAtOnce(M0, name) THEN ListedOpenSteps(M0)
  ELSE MgrWait(FillSearch(ListedOpenSteps(M0), SearchText(name)))

\* is_customer_listed looking for the whole name in the rows
IsCustomerListedWholeName(M0, name) ==
  LET M == IsCustomerListedSteps(M0, name)
  IN \E k \in VisibleRows(M) : Contains(RowText(M.customers[k]), name)

\* the value is_customer_listed returns
IsCustomerListedResult(M0, name) ==
  LET M == IsCustomerListedSteps(M0, name)
  IN IF HasSpace(name)
     THEN \/ ListedAtOnce(M0, name)
          \/ \E k \in VisibleRows(M) :
               Contains(RowText(M.customers[k]), SplitRest(name))
     ELSE Contains(TableText(M), name)

\* ManagerPage.is_customer_listed(customer_name)
IsCustomerListed(name) ==
  LET M == IsCustomerListedSteps(MgrState, name)
  IN /\ MgrApply(M)
     /\ mgrLast' = MgrCall("is_customer_listed", name, EmptyForm, M,
                           IsCustomerListedResult(MgrState, name), PyUnset)
     /\ UNCHANGED <<accVars, navVars, runVars, scnVars>>
    

MgrInit ==
  /\ mgrTab = "none"
  /\ mgrPending = << >>
  /\ customers = << >>
  /\ custForm = EmptyForm
  /\ search = << >>
  /\ applied = << >>
  /\ handlers = << >>
  /\ accountNumber = PyUnset
  /\ nextAccountNo = InitialAccountNo
  /\ dlg = NoDialog
  /\ mgrLast = NoMgrCall

(* ------------------------------------------------------------------------ *)
(* LoginPage and the navigation methods of CustomerPage                     *)
(* ------------------------------------------------------------------------ *)
\* timeout=5000 of the wait_for_selector calls
SelectorTimeout == 5000

\* the wait after manager_login's click and after logout's clicks
NavSettleDelay == 1000

\* the wait at the start of is_at_customer_selection
SelectionSettleDelay == 500

\* the wait after select_different_account's select_option
AccountSettleDelay == 500

\* the time a locator action waits for its element before it raises
DefaultTimeout == 30000

\* the time a client-side update of the page takes
ClientUpdate == 100

\* the time the navigation of a login can take: less than the fixed delay,
\* more than it, more than the selector timeout
Latencies == {300, 2000, 7000}

Screens ==
  {"Home", "CustomerSelection", "CustomerHome", "ManagerHome", "OpenAccount"}

KnownCustomers == {"Harry Potter", "John Smith"}

\* customers passed to customer_login
CustomerArgs == KnownCustomers \cup {"Nobody"}

\* the account numbers the account dropdown offers, in option order
AccountsOf(name) ==
  IF name = "Harry Potter" THEN <<1004, 1005, 1006>>
  ELSE IF name = "John Smith" THEN <<1016>>
  ELSE << >>

NoNav == [to |-> "none", left |-> 0]

\* the page as one record the primitives act on
NavState ==
  [screen |-> screen, nav |-> nav, user |-> user, sel |-> selectedIndex,
   shown |-> shownIndex, raised |-> FALSE]

\* the navigation under way completes: the target screen is rendered anew
NavArrive(S) ==
  [S EXCEPT !.screen = S.nav.to, !.nav = NoNav, !.sel = 0, !.shown = 0,
            !.user = IF S.nav.to = "CustomerHome" THEN @ ELSE "none"]

\* ms milliseconds pass: the account shown follows the dropdown, and the
\* navigation under way completes when it needs no more than ms
Elapse(S, ms) ==
  LET S1 == [S EXCEPT !.shown = S.sel]
  IN IF S.nav.to = "none" THEN S1
     ELSE IF S.nav.left <= ms THEN NavArrive(S1)
     ELSE [S1 EXCEPT !.nav.left = @ - ms]

\* page.wait_for_timeout(ms)
WaitMs(S, ms) == IF S.raised THEN S ELSE Elapse(S, ms)

\* wait until an element shown on the screens `on` is visible, for at most
\* timeout ms; raise when it is not visible by then
WaitVisible(S, on, timeout) ==
  IF S.raised \/ S.screen \in on THEN S
  ELSE IF S.nav.to \in on /\ S.nav.left <= timeout THEN Elapse(S, S.nav.left)
  ELSE [Elapse(S, timeout) EXCEPT !.raised = TRUE]

\* click on an element shown on the screens `on` that starts the navigation
\* to screen `to`, which takes ms; a navigation under way is abandoned
ClickNav(S, on, to, ms) ==
  LET W == WaitVisible(S, on, DefaultTimeout)
  IN IF W.raised THEN W ELSE [W EXCEPT !.nav = [to |-> to, left |-> ms]]

\* screens showing CUSTOMER_LOGIN_BTN and MANAGER_LOGIN_BTN
LoginButtonsOn == {"Home"}

\* screens showing an element with id userSelect
UserSelectOn == {"CustomerSelection", "OpenAccount"}

\* screens showing the label "Your Name :"
NameLabelOn == {"CustomerSelection"}

\* screens showing LOGOUT_BTN, ACCOUNTS_DROPDOWN and ACCOUNT_NUMBER
AccountOn == {"CustomerHome"}

\* screens showing OPEN_ACCOUNT_TAB
ManagerTabsOn == {"ManagerHome", "OpenAccount"}

\* the Home control of the page header
HomeButtonVisible(S) == S.screen \in Screens

\* select_option(USER_SELECT, customer_name): a label not offered raises
SelectUser(S, name) ==
  LET W == WaitVisible(S, UserSelectOn, DefaultTimeout)
  IN IF W.raised THEN W
     ELSE IF name \in KnownCustomers THEN [W EXCEPT !.user = name]
     ELSE [Elapse(W, DefaultTimeout) EXCEPT !.raised = TRUE]

\* click on LOGIN_BTN, shown once a customer is chosen
ClickLogin(S, ms) ==
  IF S.raised THEN S
  ELSE IF S.screen = "CustomerSelection" /\ S.user # "none"
  THEN [S EXCEPT !.nav = [to |-> "CustomerHome", left |-> ms]]
  ELSE [Elapse(S, DefaultTimeout) EXCEPT !.raised = TRUE]

\* the text of the ACCOUNT_NUMBER element, "Account Number : 1004 ,"
AccountLabelPrefix ==
  <<"A", "c", "c", "o", "u", "n", "t", " ", "N", "u", "m", "b", "e", "r",
    " ", ":", " ">>

AccountText(n) == AccountLabelPrefix \o IntToStr(n) \o <<" ", ",">>

\* re.search(r'(\d+)', account_text): the first run of digits, or the text
\* itself when it has no digit
FirstDigits(text) ==
  IF \E i \in 1..Len(text) : IsDigit(text[i])
  THEN DigitRun(text, CHOOSE i \in 1..Len(text) :
                        /\ IsDigit(text[i])
                        /\ \A j \in 1..(i - 1) : ~IsDigit(text[j]))
  ELSE text

\* CustomerPage.get_account_number on the account page S shows
GetAccountNumber(S) ==
  IF S.screen \in AccountOn
  THEN FirstDigits(AccountText(AccountsOf(S.user)[S.shown + 1]))
  ELSE << >>

\* the options of ACCOUNTS_DROPDOWN, as select_different_account reads them
Options(S) ==
  [i \in 1..Len(AccountsOf(S.user)) |->
     [text |-> IntToStr(AccountsOf(S.user)[i]), index |-> i - 1,
      selected |-> (i - 1 = S.sel)]]

\* [opt for opt in options if not opt['selected']]
RECURSIVE OtherOptions(_)
OtherOptions(opts) ==
  IF opts = << >> THEN << >>
  ELSE IF Head(opts).selected THEN OtherOptions(Tail(opts))
  ELSE <<Head(opts)>> \o OtherOptions(Tail(opts))

\* select_different_account picking the last of the other options
SelectDifferentStepsLast(S0) ==
  LET S1 == WaitVisible(S0, AccountOn, DefaultTimeout)
      others == OtherOptions(Options(S1))
  IN IF S1.raised \/ others = << >> THEN S1
     ELSE WaitMs([S1 EXCEPT !.sel = others[Len(others)].index],
                 AccountSettleDelay)

\* the steps of CustomerPage.select_different_account
SelectDifferentSteps(S0) ==
  LET S1 == WaitVisible(S0, AccountOn, DefaultTimeout)
      others == OtherOptions(Options(S1))
  IN IF S1.raised \/ others = << >> THEN S1
     ELSE WaitMs([S1 EXCEPT !.sel = others[1].index], AccountSettleDelay)

\* the steps of LoginPage.manager_login
ManagerLoginSteps(S0, ms) ==
  LET S1 == WaitVisible(S0, LoginButtonsOn, SelectorTimeout)
      S2 == ClickNav(S1, LoginButtonsOn, "ManagerHome", ms)
  IN WaitMs(S2, NavSettleDelay)

\* the steps of LoginPage.customer_login
CustomerLoginSteps(S0, name, ms1, ms2) ==
  LET S1 == ClickNav(S0, LoginButtonsOn, "CustomerSelection", ms1)
      S2 == SelectUser(S1, name)
  IN ClickLogin(S2, ms2)

\* logout without the settle delay after the click on LOGOUT_BTN
LogoutStepsNoSettle(S0, return_to_home) ==
  LET S1 == WaitVisible(S0, AccountOn, SelectorTimeout)
      S2 == ClickNav(S1, AccountOn, "CustomerSelection", ClientUpdate)
  IN IF S2.raised \/ ~return_to_home \/ ~HomeButtonVisible(S2) THEN S2
     ELSE WaitMs(ClickNav(S2, Screens, "Home", ClientUpdate), NavSettleDelay)

\* the steps of CustomerPage.logout
LogoutSteps(S0, return_to_home) ==
  LET S1 == WaitVisible(S0, AccountOn, SelectorTimeout)
      S2 == ClickNav(S1, AccountOn, "CustomerSelection", ClientUpdate)
      S3 == WaitMs(S2, NavSettleDelay)
  IN IF S3.raised \/ ~return_to_home \/ ~HomeButtonVisible(S3) THEN S3
     ELSE WaitMs(ClickNav(S3, Screens, "Home", ClientUpdate), NavSettleDelay)

\* the value is_at_customer_selection returns on the page S shows
AtCustomerSelection(S) ==
  LET dropdown_visible == S.screen \in UserSelectOn
      label_visible == S.screen \in NameLabelOn
  IN dropdown_visible /\ label_visible

(* --------------------------- navigation actions ------------------------ *)
NoNavCall ==
  [op |-> "none", name |-> "none", flag |-> FALSE, ret |-> FALSE,
   raised |-> FALSE, screenBefore |-> "Home", selBefore |-> 0,
   numBefore |-> << >>, numAfter |-> << >>]

\* the variables take the values of the page record S
NavApply(S) ==
  /\ screen' = S.screen
  /\ nav' = S.nav
  /\ user' = S.user
  /\ selectedIndex' = S.sel
  /\ shownIndex' = S.shown

\* what the caller saw: the arguments, the page before the call, the value
\* returned and the account number read after the call
NavCall(op, name, flag, S, ret) ==
  [op |-> op, name |-> name, flag |-> flag, ret |-> ret, raised |-> S.raised,
   screenBefore |-> screen, selBefore |-> selectedIndex,
   numBefore |-> GetAccountNumber(NavState),
   numAfter |-> GetAccountNumber(S)]

\* LoginPage.manager_login()
ManagerLogin(ms) ==
  LET S == ManagerLoginSteps(NavState, ms)
  IN /\ NavApply(S)
     /\ navLast' = NavCall("manager_login", "none", FALSE, S, FALSE)
     /\ UNCHANGED <<accVars, mgrVars, runVars, scnVars>>

\* LoginPage.customer_login(customer_name)
CustomerLoginAs(name, ms1, ms2) ==
  LET S == CustomerLoginSteps(NavState, name, ms1, ms2)
  IN /\ NavApply(S)
     /\ navLast' = NavCall("customer_login", name, FALSE, S, FALSE)
     /\ UNCHANGED <<accVars, mgrVars, runVars, scnVars>>

\* CustomerPage.logout(return_to_home)
Logout(return_to_home) ==
  LET S == LogoutSteps(NavState, return_to_home)
  IN /\ NavApply(S)
     /\ navLast' = NavCall("logout", "none", return_to_home, S, FALSE)
     /\ UNCHANGED <<accVars, mgrVars, runVars, scnVars>>

\* LoginPage.is_at_customer_selection()
IsAtCustomerSelection ==
  LET S == WaitMs(NavState, SelectionSettleDelay)
  IN /\ NavApply(S)
     /\ navLast' = NavCall("is_at_customer_selection", "none", FALSE, S,
                           AtCustomerSelection(S))
     /\ UNCHANGED <<accVars, mgrVars, runVars, scnVars>>

\* CustomerPage.select_different_account()
SelectDifferentAccount ==
  LET S == SelectDifferentSteps(NavState)
  IN /\ NavApply(S)
     /\ navLast' = NavCall("select_different_account", "none", FALSE, S, FALSE)
     /\ UNCHANGED <<accVars, mgrVars, runVars, scnVars>>

\* CustomerPage.has_multiple_accounts()
HasMultipleAccounts ==
  LET S == WaitVisible(NavState, AccountOn, DefaultTimeout)
  IN /\ NavApply(S)
     /\ navLast' = NavCall("has_multiple_accounts", "none", FALSE, S,
                           IF S.raised THEN FALSE ELSE Len(Options(S)) > 1)
     /\ UNCHANGED <<accVars, mgrVars, runVars, scnVars>>

\* ManagerPage.go_to_open_account()
GoToOpenAccount ==
  LET S == ClickNav(NavState, ManagerTabsOn, "OpenAccount", ClientUpdate)
  IN /\ NavApply(S)
     /\ navLast' = NavCall("go_to_open_account", "none", FALSE, S, FALSE)
     /\ UNCHANGED <<accVars, mgrVars, runVars, scnVars>>

\* navigate_to_home: page.goto(BASE_URL) returns with the start page loaded
NavigateToHome ==
  /\ screen' = "Home"
  /\ nav' = NoNav
  /\ user' = "none"
  /\ selectedIndex' = 0
  /\ shownIndex' = 0
  /\ navLast' = NoNavCall
  /\ UNCHANGED <<accVars, mgrVars, runVars, scnVars>>

\* page.wait_for_timeout(1000) in a test body
PageWaitForTimeout ==
  LET S == WaitMs(NavState, NavSettleDelay)
  IN /\ nav.to # "none"
     /\ NavApply(S)
     /\ navLast' = NavCall("wait_for_timeout", "none", FALSE, S, FALSE)
     /\ UNCHANGED <<accVars, mgrVars, runVars, scnVars>>

NavInit ==
  /\ screen = "Home"
  /\ nav = NoNav
  /\ user = "none"
  /\ selectedIndex = 0
  /\ shownIndex = 0
  /\ navLast = NoNavCall

(* ------------------------------------------------------------------------ *)
(* run_tests.main, the pytest session it starts and the conftest fixtures   *)
(* ------------------------------------------------------------------------ *)
MaxScenarios == 3

\* scope= of the browser, context and page fixtures
BrowserScope == "session"

\* the context fixture with scope="session"
ContextScopeSession == "session"

ContextScope == "function"

PageScope == "function"

NoFixture == 0

\* a browser context or page as the fixtures hold it: who created it, who
\* used it, and whether it is open, closed by its own close() ("closed") or
\* gone with its parent ("dropped")
NewContext(sc) == [state |-> "open", created |-> sc, users |-> {}]

NewPage(ctx, sc) ==
  [state |-> "open", ctx |-> ctx, created |-> sc, users |-> {},
   url |-> "about:blank"]

\* context.close(): the pages still open in the context go with it
CloseContext(ps, cs, c) ==
  [pages |-> [i \in 1..Len(ps) |->
                IF ps[i].ctx = c /\ ps[i].state = "open"
                THEN [ps[i] EXCEPT !.state = "dropped"] ELSE ps[i]],
   contexts |-> [cs EXCEPT ![c].state =
                   IF @ = "open" THEN "closed" ELSE @]]

\* page.close()
ClosePage(ps, p) ==
  [ps EXCEPT ![p].state = IF @ = "open" THEN "closed" ELSE @]

\* browser.close(): the contexts and pages still open go with it
CloseBrowser(ps, cs) ==
  [pages |-> [i \in 1..Len(ps) |->
                IF ps[i].state = "open"
                THEN [ps[i] EXCEPT !.state = "dropped"] ELSE ps[i]],
   contexts |-> [i \in 1..Len(cs) |->
                   IF cs[i].state = "open"
                   THEN [cs[i] EXCEPT !.state = "dropped"] ELSE cs[i]]]

\* the exit status of a pytest run: 1 when a test failed or errored, 5 when
\* none was collected, 2 when the run was interrupted, else 0
PytestExitStatus(outcomes, interrupted) ==
  IF interrupted THEN 2
  ELSE IF \E i \in 1..Len(outcomes) : outcomes[i] # "passed" THEN 1
  ELSE IF outcomes = << >> THEN 5
  ELSE 0

\* the value main() returns: 1 when reading the report raised, else by the
\* return code of the pytest run
MainReturn(returncode, json_report) ==
  IF json_report = "malformed" THEN 1
  ELSE IF returncode # 0 THEN 1
  ELSE 0

\* main() copies the report to the results directory when the run left one
\* that json.load accepts
MainArchives(json_report) == json_report = "valid"

\* when the next step of the session is the next scenario or the session end
AfterScenario(sc, n) == IF sc < n THEN "setup_browser" ELSE "session_end"

\* main() up to subprocess.run: pytest collects n scenarios of test_banking.py
MainStart(n) ==
  /\ mainPc = "start"
  /\ mainPc' = "pytest"
  /\ collected' = n
  /\ scenario' = IF n = 0 THEN 0 ELSE 1
  /\ runPc' = AfterScenario(0, n)
  /\ UNCHANGED <<browser, contexts, pages, contextFx, pageFx, results, ran,
                 status, report, exitCode, archived, accVars, mgrVars, navVars, scnVars>>

\* the browser fixture: launched for the first scenario that needs it and
\* kept for the session
SetupBrowser ==
  /\ runPc = "setup_browser"
  /\ browser' = IF BrowserScope = "session" /\ browser = "open"
                THEN browser ELSE "open"
  /\ runPc' = "setup_context"
  /\ UNCHANGED <<mainPc, collected, scenario, contexts, pages, contextFx,
                 pageFx, results, ran, status, report, exitCode, archived,
                 accVars, mgrVars, navVars, scnVars>>

\* the context fixture: browser.new_context()
SetupContext ==
  /\ runPc = "setup_context"
  /\ IF ContextScope = "session" /\ contextFx # NoFixture
     THEN UNCHANGED <<contexts, contextFx>>
     ELSE /\ contexts' = Append(contexts, NewContext(scenario))
          /\ contextFx' = Len(contexts) + 1
  /\ runPc' = "setup_page"
  /\ UNCHANGED <<mainPc, collected, scenario, browser, pages, pageFx,
                 results, ran, status, report, exitCode, archived,
                 accVars, mgrVars, navVars, scnVars>>

\* the page fixture: context.new_page()
SetupPage ==
  /\ runPc = "setup_page"
  /\ IF PageScope = "session" /\ pageFx # NoFixture
     THEN UNCHANGED <<pages, pageFx>>
     ELSE /\ pages' = Append(pages, NewPage(contextFx, scenario))
          /\ pageFx' = Len(pages) + 1
  /\ runPc' = "navigate"
  /\ UNCHANGED <<mainPc, collected, scenario, browser, contexts, contextFx,
                 results, ran, status, report, exitCode, archived,
                 accVars, mgrVars, navVars, scnVars>>

\* the navigate_to_home fixture: page.goto(BASE_URL); when it raises the
\* scenario is an error and its body does not run
NavigateFixture(ok) ==
  /\ runPc = "navigate"
  /\ IF ok
     THEN /\ pages' = [pages EXCEPT ![pageFx].url = "BASE_URL"]
          /\ runPc' = "body"
          /\ UNCHANGED results
     ELSE /\ results' = Append(results, "error")
          /\ runPc' = "teardown_page"
          /\ UNCHANGED pages
  /\ UNCHANGED <<mainPc, collected, scenario, browser, contexts, contextFx,
                 pageFx, ran, status, report, exitCode, archived,
                 accVars, mgrVars, navVars, scnVars>>

\* the body of the scenario runs on the page fixture's page and passes or
\* fails
RunBody(passed) ==
  /\ runPc = "body"
  /\ ran' = Append(ran, [scenario |-> scenario, page |-> pageFx,
                         context |-> pages[pageFx].ctx,
                         url |-> pages[pageFx].url,
                         pageState |-> pages[pageFx].state,
                         contextState |-> contexts[pages[pageFx].ctx].state,
                         pageCreated |-> pages[pageFx].created,
                         contextCreated |-> contexts[pages[pageFx].ctx].created])
  /\ pages' = [pages EXCEPT ![pageFx].users = @ \cup {scenario}]
  /\ contexts' = [contexts EXCEPT ![pages[pageFx].ctx].users = @ \cup {scenario}]
  /\ results' = Append(results, IF passed THEN "passed" ELSE "failed")
  /\ runPc' = "teardown_page"
  /\ UNCHANGED <<mainPc, collected, scenario, browser, contextFx, pageFx,
                 status, report, exitCode, archived, accVars, mgrVars, navVars, scnVars>>

\* teardown of the page fixture: page.close()
TeardownPage ==
  /\ runPc = "teardown_page"
  /\ IF PageScope = "function"
     THEN /\ pages' = ClosePage(pages, pageFx)
          /\ pageFx' = NoFixture
     ELSE UNCHANGED <<pages, pageFx>>
  /\ runPc' = "teardown_context"
  /\ UNCHANGED <<mainPc, collected, scenario, browser, contexts, contextFx,
                 results, ran, status, report, exitCode, archived,
                 accVars, mgrVars, navVars, scnVars>>

\* teardown of the context fixture: context.close(); the session goes on
\* with the next scenario
TeardownContext ==
  /\ runPc = "teardown_context"
  /\ IF ContextScope = "function"
     THEN /\ pages' = CloseContext(pages, contexts, contextFx).pages
          /\ contexts' = CloseContext(pages, contexts, contextFx).contexts
          /\ contextFx' = NoFixture
     ELSE UNCHANGED <<pages, contexts, contextFx>>
  /\ runPc' = AfterScenario(scenario, collected)
  /\ scenario' = IF scenario < collected THEN scenario + 1 ELSE scenario
  /\ UNCHANGED <<mainPc, collected, browser, pageFx, results, ran, status,
                 report, exitCode, archived, accVars, mgrVars, navVars, scnVars>>

\* the end of the pytest session: the fixtures of session scope are torn
\* down, the browser last (browser.close()), and the process exits; the run
\* leaves test_results.json or not, as the pytest configuration has it
SessionFinish(interrupted, left) ==
  /\ runPc = "session_end"
  /\ interrupted => collected = 0
  /\ LET ps1 == IF pageFx # NoFixture THEN ClosePage(pages, pageFx) ELSE pages
         c1 == IF contextFx # NoFixture
               THEN CloseContext(ps1, contexts, contextFx)
               ELSE [pages |-> ps1, contexts |-> contexts]
         c2 == IF browser = "open" THEN CloseBrowser(c1.pages, c1.contexts)
               ELSE c1
     IN /\ pages' = c2.pages
        /\ contexts' = c2.contexts
  /\ pageFx' = NoFixture
  /\ contextFx' = NoFixture
  /\ browser' = IF browser = "open" THEN "closed" ELSE browser
  /\ status' = PytestExitStatus(results, interrupted)
  /\ report' = left
  /\ runPc' = "exited"
  /\ UNCHANGED <<mainPc, collected, scenario, results, ran, exitCode,
                 archived, accVars, mgrVars, navVars, scnVars>>

\* main() after subprocess.run: the report is read and copied when the file
\* exists, and the exit code is returned
MainReport ==
  /\ mainPc = "pytest"
  /\ runPc = "exited"
  /\ exitCode' = MainReturn(status, report)
  /\ archived' = MainArchives(report)
  /\ mainPc' = "returned"
  /\ UNCHANGED <<runPc, collected, scenario, browser, contexts, pages,
                 contextFx, pageFx, results, ran, status, report,
                 accVars, mgrVars, navVars, scnVars>>

Reports == {"absent", "valid", "malformed"}

RunInit ==
  /\ mainPc = "start"
  /\ runPc = "idle"
  /\ collected = 0
  /\ scenario = 0
  /\ browser = "none"
  /\ contexts = << >>
  /\ pages = << >>
  /\ contextFx = NoFixture
  /\ pageFx = NoFixture
  /\ results = << >>
  /\ ran = << >>
  /\ status = 0
  /\ report = "absent"
  /\ exitCode = 0
  /\ archived = FALSE

(* ------------------------------------------------------------------------ *)
(* the scenarios of test_banking that create a customer, on customer data   *)
(* shared between scenario runs                                             *)
(* ------------------------------------------------------------------------ *)
MaxRuns == 3

\* test_bank_manager_add_customer and test_complete_customer_lifecycle
CreatingScenarios == {"add_customer", "lifecycle"}

\* first_name, last_name and post_code a run of the scenario uses
ScenarioFirstName(sc, run) == <<"J", "o", "h", "n">>

ScenarioLastName(sc, run) == <<"S", "m", "i", "t", "h">>

ScenarioPostCode(sc, run) == <<"1", "2", "3", "4", "5">>

ScenarioForm(sc, run) ==
  [first |-> ScenarioFirstName(sc, run), last |-> ScenarioLastName(sc, run),
   post |-> ScenarioPostCode(sc, run)]

NoOwner == [scenario |-> "none", run |-> 0]

NoScenarioStep ==
  [op |-> "none", actor |-> NoOwner, owners |-> {}, created |-> FALSE]

\* the customers of the shared data without the tag of who created them
Untagged(cs) ==
  [k \in 1..Len(cs) |-> [first |-> cs[k].first, last |-> cs[k].last,
                         post |-> cs[k].post, accounts |-> cs[k].accounts]]

\* rows left visible by the search for first_name whose text contains
\* first_name and last_name
ScenarioRows(cs, form) ==
  {k \in 1..Len(cs) :
     /\ FilterMatches(Untagged(cs)[k], form.first)
     /\ Contains(RowText(Untagged(cs)[k]), form.first)
     /\ Contains(RowText(Untagged(cs)[k]), form.last)}

\* the creators of the customers in the rows ks
OwnersOf(cs, ks) == {cs[k].owner : k \in ks}

Actor(sc) == [scenario |-> sc, run |-> scRun[sc]]

\* the add-customer step of a scenario run: the form is submitted and the
\* application adds the customer unless it has the same customer already
ScenarioAdd(sc) ==
  LET form == ScenarioForm(sc, scRun[sc])
      dup == IsDuplicate(Untagged(remote), form)
  IN /\ scPc[sc] = "start"
     /\ remote' = IF dup THEN remote
                  ELSE Append(remote, [first |-> form.first, last |-> form.last,
                                       post |-> form.post, accounts |-> << >>,
                                       owner |-> Actor(sc)])
     /\ scPc' = [scPc EXCEPT ![sc] = IF sc = "lifecycle" THEN "added" ELSE "done"]
     /\ scnLast' = [op |-> "add", actor |-> Actor(sc), created |-> ~dup,
                    owners |-> OwnersOf(remote',
                                        {k \in 1..Len(remote') :
                                           IsDuplicate(<<Untagged(remote')[k]>>, form)})]
     /\ UNCHANGED <<scRun, accVars, mgrVars, navVars, runVars>>

\* step 6 of the lifecycle scenario: the customer is looked up in the table
ScenarioVerifyListed ==
  LET form == ScenarioForm("lifecycle", scRun["lifecycle"])
  IN /\ scPc["lifecycle"] = "added"
     /\ scPc' = [scPc EXCEPT !["lifecycle"] = "listed"]
     /\ scnLast' = [op |-> "listed", actor |-> Actor("lifecycle"),
                    created |-> FALSE,
                    owners |-> OwnersOf(remote, ScenarioRows(remote, form))]
     /\ UNCHANGED <<remote, scRun, accVars, mgrVars, navVars, runVars>>

\* step 13 of the lifecycle scenario: Delete is clicked in the first row
\* whose text contains first_name and last_name
ScenarioDelete ==
  LET form == ScenarioForm("lifecycle", scRun["lifecycle"])
      rows == ScenarioRows(remote, form)
      k == CHOOSE i \in rows : \A j \in rows : i <= j
  IN /\ scPc["lifecycle"] = "listed"
     /\ remote' = IF rows = {} THEN remote ELSE Remove(remote, k)
     /\ scPc' = [scPc EXCEPT !["lifecycle"] = "deleted"]
     /\ scnLast' = [op |-> "delete", actor |-> Actor("lifecycle"),
                    created |-> FALSE,
                    owners |-> IF rows = {} THEN {} ELSE {remote[k].owner}]
     /\ UNCHANGED <<scRun, accVars, mgrVars, navVars, runVars>>

\* the last check of the lifecycle scenario: no row of the customer is left
ScenarioVerifyDeleted ==
  LET form == ScenarioForm("lifecycle", scRun["lifecycle"])
  IN /\ scPc["lifecycle"] = "deleted"
     /\ scPc' = [scPc EXCEPT !["lifecycle"] = "done"]
     /\ scnLast' = [op |-> "listed_after_delete", actor |-> Actor("lifecycle"),
                    created |-> FALSE,
                    owners |-> OwnersOf(remote, ScenarioRows(remote, form))]
     /\ UNCHANGED <<remote, scRun, accVars, mgrVars, navVars, runVars>>

\* the scenario is run again
ScenarioRerun(sc) ==
  /\ scPc[sc] = "done"
  /\ scRun[sc] < MaxRuns
  /\ scRun' = [scRun EXCEPT ![sc] = @ + 1]
  /\ scPc' = [scPc EXCEPT ![sc] = "start"]
  /\ scnLast' = NoScenarioStep
  /\ UNCHANGED <<remote, accVars, mgrVars, navVars, runVars>>

ScnInit ==
  /\ remote = << >>
  /\ scPc = [sc \in CreatingScenarios |-> "start"]
  /\ scRun = [sc \in CreatingScenarios |-> 1]
  /\ scnLast = NoScenarioStep

(* --------------------------- specifications ---------------------------- *)
vars == <<accVars, mgrVars, navVars, runVars, scnVars>>

\* a customer session on the account page
Init == AccInit /\ MgrInit /\ NavInit /\ RunInit /\ ScnInit

Next ==
  \/ \E a \in Amounts : PerformDeposit(a)
  \/ \E a \in Amounts : PerformWithdrawal(a)
  \/ GoToTransactions
  \/ SortTransactionsByDate
  \/ GetTransactionAmounts
  \/ CustomerLogin

Spec == Init /\ [][Next]_vars

\* a manager session on the manager pages
ManagerInit == AccInit /\ balance = 0 /\ MgrInit /\ NavInit /\ RunInit /\ ScnInit

ManagerNext ==
  \/ \E f \in FirstNames \cup {<< >>}, l \in LastNames, p \in PostCodes,
        propagate \in BOOLEAN :
        AddCustomer(f, l, p, propagate)
  \/ \E name \in NameArgs, currency \in CurrencyArgs,
        fits \in BOOLEAN, propagate \in BOOLEAN :
        OpenAccount(name, currency, fits, propagate)
  \/ \E name \in NameArgs : DeleteCustomer(name)
  \/ \E name \in NameArgs : IsCustomerListed(name)

SpecManager == ManagerInit /\ [][ManagerNext]_vars

\* LoginPage and the navigation of CustomerPage, on one page
LoginInit == AccInit /\ balance = 0 /\ MgrInit /\ NavInit /\ RunInit /\ ScnInit

LoginNext ==
  \/ \E ms \in Latencies : ManagerLogin(ms)
  \/ \E name \in CustomerArgs, ms1, ms2 \in Latencies :
       CustomerLoginAs(name, ms1, ms2)
  \/ \E return_to_home \in BOOLEAN : Logout(return_to_home)
  \/ IsAtCustomerSelection
  \/ SelectDifferentAccount
  \/ HasMultipleAccounts
  \/ GoToOpenAccount
  \/ NavigateToHome
  \/ PageWaitForTimeout

SpecLogin == LoginInit /\ [][LoginNext]_vars

\* one run of run_tests.main: the pytest session with its fixtures
HarnessInit == AccInit /\ balance = 0 /\ MgrInit /\ NavInit /\ RunInit /\ ScnInit

HarnessNext ==
  \/ \E n \in 0..MaxScenarios : MainStart(n)
  \/ SetupBrowser
  \/ SetupContext
  \/ SetupPage
  \/ \E ok \in BOOLEAN : NavigateFixture(ok)
  \/ \E passed \in BOOLEAN : RunBody(passed)
  \/ TeardownPage
  \/ TeardownContext
  \/ \E interrupted \in BOOLEAN, left \in Reports :
       SessionFinish(interrupted, left)
  \/ MainReport

SpecHarness == HarnessInit /\ [][HarnessNext]_vars

\* runs of the customer-creating scenarios, interleaved on shared data
ScenariosInit ==
  AccInit /\ balance = 0 /\ MgrInit /\ NavInit /\ RunInit /\ ScnInit

ScenariosNext ==
  \/ \E sc \in CreatingScenarios : ScenarioAdd(sc)
  \/ ScenarioVerifyListed
  \/ ScenarioDelete
  \/ ScenarioVerifyDeleted
  \/ \E sc \in CreatingScenarios : ScenarioRerun(sc)

SpecScenarios == ScenariosInit /\ [][ScenariosNext]_vars

(* ------------------------ claims: CustomerPage ------------------------- *)
\* the account view (not the transactions view) was shown when the last
\* deposit or withdrawal was called
OnAccountView == accLast.tabBefore # "transactions"

\* C1: a withdrawal of more than the balance, after any earlier deposits and
\* withdrawals, leaves get_balance() unchanged and shows a message containing
\* "Transaction Failed. You can not withdraw amount more than the balance."
C1_OverdraftRejected ==
  (/\ lastAct = "perform_withdrawal"
   /\ OnAccountView
   /\ accLast.amount > accLast.balBefore)
  => (/\ ~accLast.raised
      /\ GetBalance = accLast.balBefore
      /\ MessageVisible(AccState)
      /\ Contains(GetMessage, TransactionFailedText))

C1_Witness ==
  /\ lastAct = "perform_withdrawal"
  /\ OnAccountView
  /\ accLast.amount > accLast.balBefore
  /\ accLast.txBefore >= 2
  /\ accLast.msgBefore = "TransactionSuccessful"
  /\ message = "TransactionFailed"

\* C2 as stated: perform_deposit(a), a >= 0, gives get_balance() = b + a and a
\* visible message containing "successful"
C2_AsStated ==
  (lastAct = "perform_deposit" /\ OnAccountView)
  => (/\ ~accLast.raised
      /\ GetBalance = accLast.balBefore + accLast.amount
      /\ MessageVisible(AccState)
      /\ Contains(GetMessage, SuccessfulNeedle))

\* C2: perform_deposit(a), a >= 0 (0 included), gives get_balance() = b + a
\* and the visible message "Deposit Successful", which contains "successful"
\* when compared case-insensitively
C2_DepositCredits ==
  (lastAct = "perform_deposit" /\ OnAccountView)
  => (/\ ~accLast.raised
      /\ GetBalance = accLast.balBefore + accLast.amount
      /\ MessageVisible(AccState)
      /\ Contains(GetMessage, DepositSuccessfulText)
      /\ Contains(Lower(GetMessage), SuccessfulNeedle))

C2_Witness ==
  /\ lastAct = "perform_deposit"
  /\ OnAccountView
  /\ accLast.amount = 0
  /\ accLast.balBefore > 0
  /\ accLast.inputBefore # << >>
  /\ message = "DepositSuccessful"

\* C3: a withdrawal of 0 <= a <= b gives get_balance() = b - a, whatever text
\* an earlier deposit or withdrawal left in the amount input
C3_WithdrawalDebits ==
  (/\ lastAct = "perform_withdrawal"
   /\ OnAccountView
   /\ accLast.amount <= accLast.balBefore)
  => (/\ ~accLast.raised
      /\ GetBalance = accLast.balBefore - accLast.amount)

C3_Witness ==
  /\ lastAct = "perform_withdrawal"
  /\ OnAccountView
  /\ accLast.amount > 0
  /\ accLast.amount < accLast.balBefore
  /\ accLast.inputBefore # << >>
  /\ accLast.inputBefore # IntToStr(accLast.amount)
  /\ GetBalance = accLast.balBefore - accLast.amount

\* C4: perform_withdrawal returns True exactly when, after the submit click
\* and the settle delay, the message element is visible and its lower-cased
\* text contains "successful"; otherwise (no visible message too) False
C4_WithdrawalReturn ==
  (lastAct = "perform_withdrawal" /\ ~accLast.raised)
  => (accLast.ret = TRUE
        <=> (/\ message # "none"
             /\ Contains(Lower(MessageText(message)), SuccessfulNeedle)))

C4_Witness ==
  /\ lastAct = "perform_withdrawal"
  /\ ~accLast.raised
  /\ accLast.ret = FALSE
  /\ message = "TransactionFailed"
  /\ accLast.msgBefore = "DepositSuccessful"

Range(q) == {q[i] : i \in 1..Len(q)}

\* C5: a successful deposit or withdrawal adds exactly one transaction row,
\* carrying its amount; get_transaction_amounts() has one entry per visible
\* row, in the table's order, each the row's amount as a plain integer
\* string, so the shown table lists the amount of that operation
C5_TransactionRows ==
  /\ (lastAct \in {"perform_deposit", "perform_withdrawal"} /\ accLast.ok)
     => (/\ Len(transactions) = accLast.txBefore + 1
         /\ transactions[Len(transactions)].amount = accLast.amount)
  /\ lastAct = "get_transaction_amounts"
     => (/\ Len(txAmounts.amounts) = Len(VisibleTxRows)
         /\ \A i \in 1..Len(VisibleTxRows) :
              txAmounts.amounts[i] = IntToStr(VisibleTxRows[i].amount))
  /\ (txAmounts.called /\ txAmounts.shown /\ accLast.ok)
     => IntToStr(accLast.amount) \in Range(txAmounts.amounts)

C5_Witness ==
  /\ lastAct = "get_transaction_amounts"
  /\ txAmounts.shown
  /\ sortNewest
  /\ accLast.ok
  /\ accLast.amount = 12
  /\ Len(txAmounts.amounts) = 3
  /\ txAmounts.amounts[1] = <<"1", "2">>

\* this call's withdrawal was applied: one Debit row for the amount was
\* added and the balance went down by the amount
WithdrawalApplied ==
  /\ Len(transactions) = accLast.txBefore + 1
  /\ transactions[Len(transactions)] =
       [amount |-> accLast.amount, type |-> "Debit"]
  /\ GetBalance = accLast.balBefore - accLast.amount

\* C19: after any sequence of deposits and withdrawals, perform_withdrawal(a)
\* returns True exactly when this call's withdrawal was applied; a success
\* message an earlier deposit or withdrawal left visible does not make a
\* rejected withdrawal return True
C19_ReturnMeansApplied ==
  (lastAct = "perform_withdrawal" /\ ~accLast.raised)
  => (/\ accLast.ret = TRUE <=> WithdrawalApplied
      /\ accLast.ret = FALSE
         => (/\ Len(transactions) = accLast.txBefore
             /\ GetBalance = accLast.balBefore))

C19_Witness ==
  /\ lastAct = "perform_withdrawal"
  /\ ~accLast.raised
  /\ accLast.msgBefore = "TransactionSuccessful"
  /\ accLast.amount > accLast.balBefore
  /\ accLast.balBefore > 0
  /\ accLast.ret = FALSE
  /\ GetBalance = accLast.balBefore

(* ------------------------- claims: ManagerPage ------------------------- *)
FullName(form) == form.first \o <<" ">> \o form.last

\* C6 as stated, for first name, last name and post code that are not
\* empty: after add_customer(f, l, p), is_customer_listed(f + " " + l)
\* returns True; after delete_customer(f + " " + l) it returns False, whatever
\* other customers are in the list
C6_RoundTrip ==
  /\ (mgrLast.op = "add_customer" /\ FormComplete(mgrLast.form))
     => IsCustomerListedResult(MgrState, FullName(mgrLast.form))
  /\ (mgrLast.op = "delete_customer" /\ HasSpace(mgrLast.name))
     => ~IsCustomerListedResult(MgrState, mgrLast.name)

\* a row of the list delete_customer was called on matches the name: the
\* search for the name's first token leaves it visible and its text contains
\* the rest of the name
RowMatched(k) ==
  /\ k \in 1..Len(mgrLast.before)
  /\ FilterMatches(mgrLast.before[k], SearchText(mgrLast.name))
  /\ Contains(RowText(mgrLast.before[k]), RowNeedle(mgrLast.name))

\* C7: delete_customer returns True exactly when a row matching the name was
\* found and its delete control clicked; it returns False, with no delete
\* control clicked, when no row matches
C7_DeleteReturn ==
  mgrLast.op = "delete_customer"
  => (/\ mgrLast.ret = TRUE <=> \E k \in 1..Len(mgrLast.before) : RowMatched(k)
      /\ mgrLast.ret = TRUE
         => (/\ RowMatched(mgrLast.clicked)
             /\ customers = Remove(mgrLast.before, mgrLast.clicked))
      /\ mgrLast.ret = FALSE
         => (mgrLast.clicked = 0 /\ customers = mgrLast.before))

C7_Witness ==
  /\ mgrLast.op = "delete_customer"
  /\ mgrLast.ret = TRUE
  /\ Len(mgrLast.before) = 2
  /\ mgrLast.clicked = 2
  /\ Len(customers) = 1

C10_DialogAccepted ==
  (mgrLast.op = "add_customer" /\ dlg.fired)
  => (/\ dlg.own
      /\ dlg.accepts = 1
      /\ ~dlg.dismissed
      /\ handlers = << >>)

C10_Witness ==
  /\ mgrLast.op = "add_customer"
  /\ dlg.fired
  /\ dlg.kind = "added"
  /\ dlg.accepts = 1
  /\ ~mgrLast.raised
  /\ Len(customers) = 2

\* C17 as stated: after any sequence of add_customer and open_account calls
\* (calls whose form the application rejects without a dialog included),
\* a dialog that appears is accepted exactly once, with no failed second
\* accept, and no listener registered by an earlier call is still registered
\* when it fires
C17_DialogsAcceptedOnce ==
  (mgrLast.op \in {"add_customer", "open_account"} /\ dlg.fired)
  => (/\ dlg.accepts = 1
      /\ ~dlg.dismissed
      /\ ~dlg.error
      /\ dlg.stale = 0)

\* C18 as stated: delete_customer("first last") clicks the delete control of
\* at most one row, and only of a row whose customer has exactly that first
\* name and that last name
C18_DeletesOnlyNamed ==
  (mgrLast.op = "delete_customer" /\ HasSpace(mgrLast.name))
  => (/\ mgrLast.clicked = 0 => customers = mgrLast.before
      /\ mgrLast.clicked # 0
         => (/\ customers = Remove(mgrLast.before, mgrLast.clicked)
             /\ mgrLast.before[mgrLast.clicked].first = SplitFirst(mgrLast.name)
             /\ mgrLast.before[mgrLast.clicked].last = SplitRest(mgrLast.name)))

(* -------------------- claims: login and navigation --------------------- *)
\* C11 as stated: manager_login() does not return before the manager home
\* screen is shown: whenever it returns normally the screen is ManagerHome
C11_ManagerLoginAwaits ==
  (navLast.op = "manager_login" /\ ~navLast.raised)
  => screen = "ManagerHome"

\* C12: over the screens Home, CustomerSelection and CustomerHome, a
\* logout(return_to_home=False) that found the account page of a logged-in
\* customer ends on CustomerSelection, where is_at_customer_selection()
\* returns True; logout(return_to_home=True) ends on Home when the Home
\* control is visible; and is_at_customer_selection() returns True exactly
\* when both the customer dropdown and the "Your Name :" label are visible
C12_LogoutScreens ==
  /\ (navLast.op = "logout" /\ ~navLast.raised /\ ~navLast.flag)
     => (/\ screen = "CustomerSelection"
         /\ nav = NoNav
         /\ AtCustomerSelection(WaitMs(NavState, SelectionSettleDelay)))
  /\ (navLast.op = "logout" /\ ~navLast.raised /\ navLast.flag
        /\ HomeButtonVisible(NavState))
     => (screen = "Home" /\ nav = NoNav)
  /\ navLast.op = "is_at_customer_selection"
     => (navLast.ret = TRUE
           <=> (screen \in UserSelectOn /\ screen \in NameLabelOn))

C12_Witness ==
  /\ navLast.op = "logout"
  /\ ~navLast.raised
  /\ ~navLast.flag
  /\ navLast.screenBefore = "CustomerSelection"
  /\ screen = "CustomerSelection"

\* the lowest index of the account dropdown that is not idx
LowestOther(idx, n) ==
  CHOOSE i \in 0..(n - 1) : i # idx /\ \A j \in 0..(i - 1) : j = idx

\* C13: select_different_account() selects the lowest-index option that is
\* not the selected one: with two or more accounts the selected account and
\* get_account_number() differ from before, with one account nothing
\* changes; has_multiple_accounts() is True exactly when the dropdown has
\* more than one option
C13_SelectDifferent ==
  /\ (navLast.op = "select_different_account" /\ ~navLast.raised)
     => LET n == Len(AccountsOf(user))
            was == IF navLast.screenBefore = "CustomerHome"
                   THEN navLast.selBefore ELSE 0
        IN /\ n >= 2
              => (/\ selectedIndex = LowestOther(was, n)
                  /\ selectedIndex # was
                  /\ shownIndex = selectedIndex
                  /\ navLast.numAfter = IntToStr(AccountsOf(user)[selectedIndex + 1])
                  /\ navLast.numAfter # IntToStr(AccountsOf(user)[was + 1])
                  /\ navLast.screenBefore = "CustomerHome"
                     => navLast.numAfter # navLast.numBefore)
           /\ n = 1
              => (/\ selectedIndex = was
                  /\ navLast.numAfter = IntToStr(AccountsOf(user)[was + 1])
                  /\ navLast.screenBefore = "CustomerHome"
                     => navLast.numAfter = navLast.numBefore)
  /\ (navLast.op = "has_multiple_accounts" /\ ~navLast.raised)
     => (navLast.ret = TRUE <=> Len(AccountsOf(user)) > 1)

C13_Witness ==
  /\ navLast.op = "select_different_account"
  /\ ~navLast.raised
  /\ navLast.screenBefore = "CustomerHome"
  /\ navLast.selBefore = 1
  /\ selectedIndex = 0
  /\ navLast.numBefore = <<"1", "0", "0", "5">>
  /\ navLast.numAfter = <<"1", "0", "0", "4">>

(* ------------------- claims: fixtures and run_tests -------------------- *)
\* C14: every scenario body runs on a page and in a context created during
\* its own setup, open, with the page at the start URL; no context or page
\* is used by two scenarios; a context is closed only after its page was
\* closed by page.close(), both are closed when the scenario has ended, and
\* the browser is closed only after every context was closed
C14_SessionIsolation ==
  /\ \A i \in 1..Len(ran) :
        /\ ran[i].url = "BASE_URL"
        /\ ran[i].pageState = "open"
        /\ ran[i].contextState = "open"
        /\ ran[i].pageCreated = ran[i].scenario
        /\ ran[i].contextCreated = ran[i].scenario
  /\ \A p \in 1..Len(pages) : Cardinality(pages[p].users) <= 1
  /\ \A c \in 1..Len(contexts) : Cardinality(contexts[c].users) <= 1
  /\ \A p \in 1..Len(pages) :
        contexts[pages[p].ctx].state # "open" => pages[p].state = "closed"
  /\ runPc \in {"setup_browser", "session_end", "exited"}
     => \A c \in 1..Len(contexts) : contexts[c].state = "closed"
  /\ browser = "closed"
     => \A c \in 1..Len(contexts) : contexts[c].state = "closed"

C14_Witness ==
  /\ runPc = "exited"
  /\ browser = "closed"
  /\ Len(contexts) = 3
  /\ Len(ran) = 2
  /\ \E i \in 1..Len(results) : results[i] = "failed"
  /\ \A p \in 1..Len(pages) : pages[p].state = "closed"

\* C15 as stated: main() returns a non-zero exit code exactly when at least
\* one scenario failed (or ended in an error), so 0 whenever none did, and
\* every run writes the report file
C15_ExitCode ==
  mainPc = "returned"
  => (/\ exitCode # 0 <=> \E i \in 1..Len(results) : results[i] # "passed"
      /\ archived)

(* ------------------------- claims: scenarios --------------------------- *)
\* C16 as stated: a scenario run that creates a customer uses a name no
\* other scenario run uses, so the customers its add, listing check and
\* delete steps meet are the ones it created itself
C16_UniqueNames ==
  /\ scnLast.op = "add"
     => \A sc \in CreatingScenarios : \A run \in 1..scRun[sc] :
          [scenario |-> sc, run |-> run] # scnLast.actor
          => FullName(ScenarioForm(sc, run))
               # FullName(ScenarioForm(scnLast.actor.scenario,
                                       scnLast.actor.run))
  /\ scnLast.op # "none" => scnLast.owners \subseteq {scnLast.actor}

====
